---- MODULE Spec2Model ----
(***************************************************************************)
(* A model of the image lineage walk of ui/components/ImageLineage.tsx:    *)
(* the useImageLineage hook, its fetchLineage effect, traverseLineage and  *)
(* createOrphanProof.  The lookup service findProofsByHash is the          *)
(* environment: every call either throws or resolves to some               *)
(* { success, data }.                                                      *)
(***************************************************************************)
EXTENDS Integers, Sequences, FiniteSets, TLC

\* ---------------------------------------------------------------- bounds
NumHashes == 2      \* distinct content hashes the environment can produce
MaxList == 2        \* longest list a lookup returns

\* ------------------------------------------------------------ data model
NoHash == 0         \* an absent (undefined, falsy) hash field
Hashes == 1..NumHashes
HashOpt == Hashes \cup {NoHash}

NoId == ""          \* an absent record id
SomeId == "id"      \* the id of a record that exists in the store

StoredName == "img"
PrivateName == "Private Image"
UnknownName == "Unknown Parent Image"

\* ProofRecord, restricted to the fields the walk and the node title read.
ProofRecord(i, n, o, t) ==
    [id |-> i, imageName |-> n, originalImageHash |-> o, transformedImageHash |-> t]

\* Records the lookup service can return and the caller can pass in.
StoredRecords ==
    {ProofRecord(SomeId, StoredName, o, t) : o \in HashOpt, t \in HashOpt}

StartProofs == StoredRecords

\* An orphan record that carries the hash in the wrong field.
createOrphanProofSwapped(hash, name) ==
    ProofRecord(NoId, name, NoHash, hash)

\* createOrphanProof(hash, name)
createOrphanProof(hash, name) ==
    ProofRecord(NoId, name, hash, NoHash)

\* LineageNode; isOrphan = FALSE stands for the field left unset.
LineageNode(p, l, orphan) ==
    [proof |-> p, level |-> l, isOrphan |-> orphan]

\* ------------------------------------------------- the lookup environment
ListsUpTo(n) == UNION {[1..k -> StoredRecords] : k \in 0..n}

\* What an awaited findProofsByHash can resolve to: success with a list
\* (possibly empty), success with no data, or a returned failure.
Response(ok, has, d) ==
    [settled |-> TRUE, success |-> ok, hasData |-> has, data |-> d]

Responses ==
    {Response(TRUE, TRUE, d) : d \in ListsUpTo(MaxList)}
    \cup {Response(TRUE, FALSE, <<>>), Response(FALSE, FALSE, <<>>)}

\* The { success, data } binding of an iteration before its await settles.
NoResponse == [settled |-> FALSE, success |-> FALSE, hasData |-> FALSE, data |-> <<>>]

\* The computations of the hook: the effect run for the first currentProof
\* and the run started when currentProof changes.
Comps == {"first", "second"}

VARIABLES
    currentProof,   \* the prop the hook was last rendered with
    lineage,        \* useState: the published lineage
    loading,        \* useState
    error,          \* useState: "" stands for null
    pc,             \* per computation: where fetchLineage stands
    proofOf,        \* per computation: the currentProof its closure captured
    lineageNodes,   \* per computation: the node list being built
    visitedHashes,  \* per computation
    currentHash,    \* per computation: traverseLineage's currentHash
    level,          \* per computation: traverseLineage's level
    foundParent,    \* per computation: traverseLineage's foundParent
    resp,           \* per computation: { success, data } of the last lookup
    queried,        \* per computation: the hashes passed to findProofsByHash
    store           \* per hash: what the lookup store answered for it, once asked

vars == <<currentProof, lineage, loading, error, pc, proofOf, lineageNodes,
          visitedHashes, currentHash, level, foundParent, resp, queried, store>>

hookVars == <<lineage, loading, error>>

NoError == ""
FailedMessage == "Failed to load image lineage"

Last(s) == s[Len(s)]

\* A find that compares the original hash instead of the transformed one.
FindIndexByOriginal(data, h) ==
    LET hits == {i \in 1..Len(data) : data[i].originalImageHash = h}
    IN  IF hits = {} THEN 0 ELSE CHOOSE i \in hits : \A j \in hits : i <= j

\* A find that returns the last match instead of the first.
FindIndexLast(data, h) ==
    LET hits == {i \in 1..Len(data) : data[i].transformedImageHash = h}
    IN  IF hits = {} THEN 0 ELSE CHOOSE i \in hits : \A j \in hits : i >= j

\* data.find((p) => p.transformedImageHash === currentHash): the index of the
\* first match, 0 for undefined.
FindIndex(data, h) ==
    LET hits == {i \in 1..Len(data) : data[i].transformedImageHash = h}
    IN  IF hits = {} THEN 0 ELSE CHOOSE i \in hits : \A j \in hits : i <= j

\* A test that takes an empty list for a list of records.
HasRecordsOrEmpty(r) == r.success /\ r.hasData

\* success && data && data.length > 0
HasRecords(r) == r.success /\ r.hasData /\ Len(r.data) > 0

\* A loop body without the visited-set test.
BranchNoVisitedTest(r, h, visited) ==
    IF HasRecords(r)
    THEN LET i == FindIndex(r.data, h)
         IN  IF i # 0 /\ r.data[i].originalImageHash # NoHash
             THEN "accept"
             ELSE "noParent"
    ELSE "private"

\* A loop body whose second branch is missing: a producer with a visited
\* original hash counts as no producer.
BranchNoSeen(r, h, visited) ==
    IF HasRecords(r)
    THEN LET i == FindIndex(r.data, h)
         IN  IF i # 0 /\ r.data[i].originalImageHash # NoHash
                /\ r.data[i].originalImageHash \notin visited
             THEN "accept"
             ELSE "noParent"
    ELSE "private"

\* A loop body whose second branch takes every producer, with or without an
\* original hash.
BranchSeenAnyProducer(r, h, visited) ==
    IF HasRecords(r)
    THEN LET i == FindIndex(r.data, h)
         IN  IF i # 0 /\ r.data[i].originalImageHash # NoHash
                /\ r.data[i].originalImageHash \notin visited
             THEN "accept"
             ELSE IF i # 0
                  THEN "seen"
                  ELSE "noParent"
    ELSE "private"

\* The branch of the loop body a response selects.
Branch(r, h, visited) ==
    IF HasRecords(r)
    THEN LET i == FindIndex(r.data, h)
         IN  IF i # 0 /\ r.data[i].originalImageHash # NoHash
                /\ r.data[i].originalImageHash \notin visited
             THEN "accept"
             ELSE IF i # 0 /\ r.data[i].originalImageHash # NoHash
                  THEN "seen"
                  ELSE "noParent"
    ELSE "private"

\* A visited set that tracks original hashes only.
PresentHashesOriginalOnly(p) == {p.originalImageHash} \ {NoHash}

\* A visited set that tracks transformed hashes only.
PresentHashesTransformedOnly(p) == {p.transformedImageHash} \ {NoHash}

\* The hashes a proof puts in the visited set.
PresentHashes(p) == {p.originalImageHash, p.transformedImageHash} \ {NoHash}

\* A placeholder that repeats the last node's level.
BackfillSameLevel(nodes, found) ==
    IF ~found /\ Len(nodes) > 0 /\ Last(nodes).proof.originalImageHash # NoHash
    THEN Append(nodes,
                LineageNode(createOrphanProof(Last(nodes).proof.originalImageHash,
                                              UnknownName),
                            Last(nodes).level, TRUE))
    ELSE nodes

\* A placeholder two levels below the last node.
BackfillTwoDeeper(nodes, found) ==
    IF ~found /\ Len(nodes) > 0 /\ Last(nodes).proof.originalImageHash # NoHash
    THEN Append(nodes,
                LineageNode(createOrphanProof(Last(nodes).proof.originalImageHash,
                                              UnknownName),
                            Last(nodes).level + 2, TRUE))
    ELSE nodes

\* A placeholder appended when a parent was found, not when none was.
BackfillWhenFound(nodes, found) ==
    IF found /\ Len(nodes) > 0 /\ Last(nodes).proof.originalImageHash # NoHash
    THEN Append(nodes,
                LineageNode(createOrphanProof(Last(nodes).proof.originalImageHash,
                                              UnknownName),
                            Last(nodes).level + 1, TRUE))
    ELSE nodes

\* The post-loop placeholder of traverseLineage.
Backfill(nodes, found) ==
    IF ~found /\ Len(nodes) > 0 /\ Last(nodes).proof.originalImageHash # NoHash
    THEN Append(nodes,
                LineageNode(createOrphanProof(Last(nodes).proof.originalImageHash,
                                              UnknownName),
                            Last(nodes).level + 1, TRUE))
    ELSE nodes

\* A walk that moves on to the parent's transformed hash.
NextHashTransformed(parentProof) == parentProof.transformedImageHash

\* currentHash = parentProof.originalImageHash
NextHash(parentProof) == parentProof.originalImageHash

\* A traversal entered whatever the start hash is.
EarlyReturnNever(startHash) == FALSE

\* if (!startHash) return false
EarlyReturn(startHash) == startHash = NoHash

CurrentTitle == "Current Image"
CircularTitle == "Circular Reference"
PrivateTitle == "Private Image"

\* NodeTitle: the text shown for the node at position index of the lineage.
NodeTitle(node, index) ==
    IF index = 0 THEN CurrentTitle
    ELSE IF node.isOrphan
         THEN (IF node.proof.id # NoId THEN CircularTitle ELSE PrivateTitle)
         ELSE node.proof.imageName

Init ==
    /\ currentProof \in StartProofs
    /\ lineage = <<>>
    /\ loading = TRUE
    /\ error = NoError
    /\ pc = [c \in Comps |-> "idle"]
    /\ proofOf = [c \in Comps |-> currentProof]
    /\ lineageNodes = [c \in Comps |-> <<>>]
    /\ visitedHashes = [c \in Comps |-> {}]
    /\ currentHash = [c \in Comps |-> NoHash]
    /\ level = [c \in Comps |-> 0]
    /\ foundParent = [c \in Comps |-> FALSE]
    /\ resp = [c \in Comps |-> NoResponse]
    /\ queried = [c \in Comps |-> <<>>]
    /\ store = [h \in Hashes |-> NoResponse]

\* The effect runs fetchLineage up to its first await: the state setters, the
\* one-node list, the visited set, and traverseLineage up to either its early
\* return or the first findProofsByHash call.
Launch(c, p) ==
    /\ loading' = TRUE
    /\ error' = NoError
    /\ proofOf' = [proofOf EXCEPT ![c] = p]
    /\ lineageNodes' = [lineageNodes EXCEPT ![c] = <<LineageNode(p, 0, FALSE)>>]
    /\ visitedHashes' = [visitedHashes EXCEPT ![c] = PresentHashes(p)]
    /\ IF EarlyReturn(p.originalImageHash)
       THEN /\ pc' = [pc EXCEPT ![c] = "returned"]
            /\ UNCHANGED <<currentHash, level, foundParent, queried>>
       ELSE /\ pc' = [pc EXCEPT ![c] = "lookup"]
            /\ currentHash' = [currentHash EXCEPT ![c] = p.originalImageHash]
            /\ level' = [level EXCEPT ![c] = 1]
            /\ foundParent' = [foundParent EXCEPT ![c] = FALSE]
            /\ queried' = [queried EXCEPT ![c] = <<p.originalImageHash>>]
    /\ UNCHANGED <<lineage, resp, store>>

\* No continuation of a settled promise is waiting to run.  A lookup settles,
\* and the hook is rendered, in a task of its own, and the continuations
\* queued by one task have all run before the next task starts.
NoPendingContinuation ==
    \A d \in Comps : pc[d] \notin {"resume", "returned", "threw"}

\* The effect after the first render.
Start(c) ==
    /\ c = "first"
    /\ pc[c] = "idle"
    /\ Launch(c, currentProof)
    /\ UNCHANGED currentProof

\* The hook is rendered with another currentProof and the effect runs again,
\* whether the earlier computation is over or still waiting for a lookup;
\* nothing cancels that one.
ChangeProof(c) ==
    /\ c = "second"
    /\ pc[c] = "idle"
    /\ pc["first"] # "idle"
    /\ NoPendingContinuation
    /\ \E p \in StartProofs :
          /\ currentProof' = p
          /\ Launch(c, p)

\* The awaited findProofsByHash resolves.
LookupResolves(c) ==
    /\ pc[c] = "lookup"
    /\ NoPendingContinuation
    /\ \E r \in Responses : resp' = [resp EXCEPT ![c] = r]
    /\ pc' = [pc EXCEPT ![c] = "resume"]
    /\ UNCHANGED <<currentProof, hookVars, proofOf, lineageNodes, visitedHashes,
                   currentHash, level, foundParent, queried, store>>

\* The lists a lookup store holds in the runs of two computations.
StoreResponses == {r \in Responses : Len(r.data) <= 1}

\* The awaited findProofsByHash resolves against a lookup store: a hash that
\* was asked before gets the answer it got then.
LookupAnswers(c) ==
    /\ pc[c] = "lookup"
    /\ NoPendingContinuation
    /\ LET h == currentHash[c]
       IN  IF store[h].settled
           THEN /\ resp' = [resp EXCEPT ![c] = store[h]]
                /\ UNCHANGED store
           ELSE \E r \in StoreResponses :
                  /\ resp' = [resp EXCEPT ![c] = r]
                  /\ store' = [store EXCEPT ![h] = r]
    /\ pc' = [pc EXCEPT ![c] = "resume"]
    /\ UNCHANGED <<currentProof, hookVars, proofOf, lineageNodes, visitedHashes,
                   currentHash, level, foundParent, queried>>

\* The awaited findProofsByHash rejects: traverseLineage rejects with it.
LookupThrows(c) ==
    /\ pc[c] = "lookup"
    /\ NoPendingContinuation
    /\ pc' = [pc EXCEPT ![c] = "threw"]
    /\ UNCHANGED <<currentProof, hookVars, proofOf, lineageNodes, visitedHashes,
                   currentHash, level, foundParent, resp, queried, store>>

\* A visited set shared by all computations of the hook.
VisitedShared(c) == UNION {visitedHashes[d] : d \in Comps}

\* The visitedHashes of a computation: the set its own fetchLineage created.
VisitedOf(c) == visitedHashes[c]

\* traverseLineage continues after the await: the rest of the loop body, then
\* either the next iteration up to its findProofsByHash call (whose
\* { success, data } binding is a fresh one, not yet assigned), or the code
\* after the loop and the return.
Resume(c) ==
    /\ pc[c] = "resume"
    /\ LET r == resp[c]
           h == currentHash[c]
           b == Branch(r, h, VisitedOf(c))
           parentProof == r.data[FindIndex(r.data, h)]
       IN  CASE b = "accept" ->
                  /\ lineageNodes' = [lineageNodes EXCEPT ![c] =
                         Append(@, LineageNode(parentProof, level[c], FALSE))]
                  /\ visitedHashes' = [visitedHashes EXCEPT ![c] =
                         @ \cup PresentHashes(parentProof)]
                  /\ currentHash' = [currentHash EXCEPT ![c] = NextHash(parentProof)]
                  /\ level' = [level EXCEPT ![c] = @ + 1]
                  /\ foundParent' = [foundParent EXCEPT ![c] = FALSE]
                  /\ queried' = [queried EXCEPT ![c] = Append(@, NextHash(parentProof))]
                  /\ resp' = [resp EXCEPT ![c] = NoResponse]
                  /\ pc' = [pc EXCEPT ![c] = "lookup"]
             [] b = "seen" ->
                  /\ lineageNodes' = [lineageNodes EXCEPT ![c] =
                         Backfill(Append(@, LineageNode(parentProof, level[c], TRUE)), TRUE)]
                  /\ foundParent' = [foundParent EXCEPT ![c] = TRUE]
                  /\ pc' = [pc EXCEPT ![c] = "returned"]
                  /\ UNCHANGED <<visitedHashes, currentHash, level, queried, resp>>
             [] b = "noParent" ->
                  /\ lineageNodes' = [lineageNodes EXCEPT ![c] = Backfill(@, FALSE)]
                  /\ foundParent' = [foundParent EXCEPT ![c] = FALSE]
                  /\ pc' = [pc EXCEPT ![c] = "returned"]
                  /\ UNCHANGED <<visitedHashes, currentHash, level, queried, resp>>
             [] b = "private" ->
                  /\ lineageNodes' = [lineageNodes EXCEPT ![c] =
                         Backfill(Append(@, LineageNode(createOrphanProof(h, PrivateName),
                                                        level[c], TRUE)), TRUE)]
                  /\ foundParent' = [foundParent EXCEPT ![c] = TRUE]
                  /\ pc' = [pc EXCEPT ![c] = "returned"]
                  /\ UNCHANGED <<visitedHashes, currentHash, level, queried, resp>>
    /\ UNCHANGED <<currentProof, hookVars, proofOf, store>>

\* fetchLineage continues after `await traverseLineage(...)`:
\* setLineage(lineageNodes), then the finally block.
Publish(c) ==
    /\ pc[c] = "returned"
    /\ lineage' = lineageNodes[c]
    /\ loading' = FALSE
    /\ pc' = [pc EXCEPT ![c] = "done"]
    /\ UNCHANGED <<currentProof, error, proofOf, lineageNodes, visitedHashes,
                   currentHash, level, foundParent, resp, queried, store>>

\* A catch block that still publishes the nodes built so far.
CatchPublishesPartial(c) ==
    /\ pc[c] = "threw"
    /\ error' = FailedMessage
    /\ loading' = FALSE
    /\ lineage' = lineageNodes[c]
    /\ pc' = [pc EXCEPT ![c] = "failed"]
    /\ UNCHANGED <<currentProof, proofOf, lineageNodes, visitedHashes,
                   currentHash, level, foundParent, resp, queried, store>>

\* The catch block of fetchLineage, then the finally block.
Catch(c) ==
    /\ pc[c] = "threw"
    /\ error' = FailedMessage
    /\ loading' = FALSE
    /\ pc' = [pc EXCEPT ![c] = "failed"]
    /\ UNCHANGED <<currentProof, lineage, proofOf, lineageNodes, visitedHashes,
                   currentHash, level, foundParent, resp, queried, store>>

Next ==
    \E c \in Comps :
        \/ Start(c)
        \/ LookupResolves(c)
        \/ LookupThrows(c)
        \/ Resume(c)
        \/ Publish(c)
        \/ Catch(c)

Spec == Init /\ [][Next]_vars

\* The hook with a prop change: up to two computations in flight, their
\* lookups answered by one store.
NextConc ==
    \E c \in Comps :
        \/ Start(c)
        \/ ChangeProof(c)
        \/ LookupAnswers(c)
        \/ LookupThrows(c)
        \/ Resume(c)
        \/ Publish(c)
        \/ Catch(c)

ConcSpec == Init /\ [][NextConc]_vars

\* Every started step of a computation is eventually taken: the event loop
\* runs each pending continuation, and every lookup call settles.
FairSpec ==
    /\ Spec
    /\ \A c \in Comps :
          /\ WF_vars(Start(c))
          /\ WF_vars(LookupResolves(c) \/ LookupThrows(c))
          /\ WF_vars(Resume(c))
          /\ WF_vars(Publish(c))
          /\ WF_vars(Catch(c))

\* ------------------------------------------------------------------ claims
Finished(c) == pc[c] \in {"returned", "done"}

\* C1: the walk terminates whenever every lookup call settles: each loop
\* iteration either leaves the loop or continues with a visited set that
\* strictly grew, and the computation eventually finishes.
C1_WalkTerminates ==
    /\ [][\A c \in Comps :
            (pc[c] = "resume" /\ pc'[c] # "resume") =>
                \/ pc'[c] = "returned"
                \/ /\ pc'[c] = "lookup"
                   /\ visitedHashes[c] \subseteq visitedHashes'[c]
                   /\ visitedHashes'[c] # visitedHashes[c]
                   /\ visitedHashes'[c] \subseteq Hashes]_vars
    /\ <>(pc["first"] \in {"done", "failed"})

\* A finished walk that went through a continuing iteration.
C1_Witness ==
    pc["first"] = "done" /\ Len(queried["first"]) = 2 /\ error = NoError

\* C2: in the node list, and in the published lineage, the node at position i
\* (counted from 0) has level i.
C2_LevelIsIndex ==
    /\ \A c \in Comps : \A i \in 1..Len(lineageNodes[c]) :
           lineageNodes[c][i].level = i - 1
    /\ \A i \in 1..Len(lineage) : lineage[i].level = i - 1

\* A published lineage of a resolved parent followed by the unknown-parent
\* placeholder.
C2_Witness ==
    /\ Len(lineage) = 3
    /\ ~lineage[2].isOrphan
    /\ lineage[3].proof.imageName = UnknownName

\* C3: no hash is the originalImageHash of two different non-orphan nodes.
NoDuplicateAncestors(nodes) ==
    \A i, j \in 1..Len(nodes) :
        (i # j /\ ~nodes[i].isOrphan /\ ~nodes[j].isOrphan
            /\ nodes[i].proof.originalImageHash # NoHash)
        => nodes[i].proof.originalImageHash # nodes[j].proof.originalImageHash

C3_NoDuplicateAncestors ==
    /\ \A c \in Comps : NoDuplicateAncestors(lineageNodes[c])
    /\ NoDuplicateAncestors(lineage)

\* A published lineage with two non-orphan nodes, ended by a record whose
\* original hash was already visited.
C3_Witness ==
    /\ Len(lineage) = 3
    /\ ~lineage[1].isOrphan /\ ~lineage[2].isOrphan
    /\ lineage[3].isOrphan
    /\ lineage[3].proof.originalImageHash = lineage[1].proof.originalImageHash

\* The record at index i is the one data.find returns for the current hash:
\* the first record of the returned list whose transformed hash is that hash.
Producer(c, i) ==
    /\ resp[c].settled /\ resp[c].success /\ resp[c].hasData
    /\ i \in 1..Len(resp[c].data)
    /\ resp[c].data[i].transformedImageHash = currentHash[c]
    /\ \A j \in 1..(i - 1) : resp[c].data[j].transformedImageHash # currentHash[c]

\* The last iteration appended exactly this node, nothing else, and the walk
\* has returned.
StoppedWith(c, node) ==
    /\ Len(lineageNodes[c]) = Len(queried[c]) + 1
    /\ Last(lineageNodes[c]) = node
    /\ \A i \in 1..Len(queried[c]) : ~lineageNodes[c][i].isOrphan

\* A returned walk makes no further lookup and appends no further node.
StaysStopped ==
    [][\A c \in Comps :
         Finished(c) => /\ Finished(c)'
                        /\ lineageNodes'[c] = lineageNodes[c]
                        /\ queried'[c] = queried[c]]_vars

\* A producer whose original hash is present and already visited is appended
\* itself, as an orphan at the next level, and the walk returns.
CycleStops ==
    \A c \in Comps : \A i \in 1..MaxList :
        (Finished(c) /\ Producer(c, i)
            /\ resp[c].data[i].originalImageHash # NoHash
            /\ resp[c].data[i].originalImageHash \in visitedHashes[c])
        => StoppedWith(c, LineageNode(resp[c].data[i], Len(queried[c]), TRUE))

\* The first step of the two-record cycle hA <- hB <- hA: the start has
\* original hash hA and lookup(hA) returned the one record hB -> hA.
CycleFirstLookup(c) ==
    /\ pc[c] = "resume" /\ Len(queried[c]) = 1
    /\ resp[c].settled /\ resp[c].success /\ Len(resp[c].data) = 1
    /\ resp[c].data[1].transformedImageHash = proofOf[c].originalImageHash
    /\ resp[c].data[1].originalImageHash \notin {NoHash, proofOf[c].originalImageHash}

\* The second step: lookup(hB) returned the one record hA -> hB.
CycleSecondLookup(c) ==
    /\ Finished(c) /\ Len(queried[c]) = 2
    /\ resp[c].settled /\ resp[c].success /\ Len(resp[c].data) = 1
    /\ resp[c].data[1].transformedImageHash = queried[c][2]
    /\ resp[c].data[1].originalImageHash = queried[c][1]

\* The result the claim gives for the two-record cycle.
CycleResult(c) ==
    /\ Len(lineageNodes[c]) = 3
    /\ lineageNodes[c][1] = LineageNode(proofOf[c], 0, FALSE)
    /\ lineageNodes[c][2] =
           LineageNode(ProofRecord(SomeId, StoredName, queried[c][2], queried[c][1]),
                       1, FALSE)
    /\ lineageNodes[c][3] = LineageNode(resp[c].data[1], 2, TRUE)

\* C4 as stated: a producer with a visited original hash ends the walk as an
\* orphan at the next level, and the two-record cycle hA <- hB <- hA, entered
\* from any start whose original hash is hA, walks on to hB and ends with
\* three nodes.
C4_Original ==
    /\ []CycleStops
    /\ StaysStopped
    /\ [][\A c \in Comps :
            (CycleFirstLookup(c) /\ pc'[c] # pc[c]) =>
                /\ pc'[c] = "lookup"
                /\ queried'[c] = Append(queried[c], resp[c].data[1].originalImageHash)]_vars
    /\ [](\A c \in Comps : CycleSecondLookup(c) => CycleResult(c))

\* C4 amended: the same, the three-node result of the two-record cycle being
\* claimed only when the start's transformed hash is not hB.
C4_CycleStops ==
    /\ []CycleStops
    /\ StaysStopped
    /\ [][\A c \in Comps :
            (CycleFirstLookup(c) /\ pc'[c] # pc[c]
                /\ proofOf[c].transformedImageHash # resp[c].data[1].originalImageHash) =>
                /\ pc'[c] = "lookup"
                /\ queried'[c] = Append(queried[c], resp[c].data[1].originalImageHash)]_vars
    /\ [](\A c \in Comps : CycleSecondLookup(c) => CycleResult(c))

\* The two-record cycle walked to its end: three nodes, the orphan last.
C4_Witness ==
    \E c \in Comps : CycleSecondLookup(c) /\ CycleResult(c) /\ pc[c] = "done"

\* C5 as stated: a lookup that returns success = false fails the computation:
\* the walk does not return normally, nothing is published for it and the
\* error state is set.
C5_ReturnedFailureIsFatal ==
    \A c \in Comps :
        (resp[c].settled /\ ~resp[c].success /\ pc[c] # "resume")
        => /\ pc[c] \in {"threw", "failed"}
           /\ lineage # lineageNodes[c]
           /\ pc[c] = "failed" => error # NoError

\* C6: a lookup that throws fails the computation atomically: the nodes built
\* so far are never published, the error is set and loading ends false.
C6_ThrowFailsAtomically ==
    /\ [](\A c \in Comps :
            pc[c] \in {"threw", "failed"} =>
                /\ lineage = <<>>
                /\ pc[c] = "failed" => (error # NoError /\ loading = FALSE))
    /\ [][\A c \in Comps :
            /\ (pc[c] = "lookup" /\ pc'[c] = "threw") => lineage' = lineage
            /\ (pc[c] = "threw" /\ pc'[c] # "threw") => (pc'[c] = "failed" /\ lineage' = lineage)
            /\ pc[c] = "failed" => (pc'[c] = "failed" /\ lineage' = lineage)]_vars

\* A computation that failed on its second lookup, with two nodes built.
C6_Witness ==
    \E c \in Comps :
        /\ pc[c] = "failed" /\ Len(queried[c]) = 2 /\ Len(lineageNodes[c]) = 2
        /\ lineage = <<>> /\ error = FailedMessage /\ ~loading

\* The case of C7: the producer of the current hash has no original hash.
RootProducer(c, i) ==
    Finished(c) /\ Producer(c, i) /\ resp[c].data[i].originalImageHash = NoHash

ChainStep ==
    [][\A c \in Comps : \A i \in 1..MaxList :
         (pc[c] = "resume" /\ pc'[c] # pc[c] /\ Producer(c, i)
            /\ resp[c].data[i].originalImageHash # NoHash
            /\ resp[c].data[i].originalImageHash \notin visitedHashes[c])
         => /\ lineageNodes'[c] =
                  Append(lineageNodes[c],
                         LineageNode(resp[c].data[i], Len(lineageNodes[c]), FALSE))
            /\ queried'[c] = Append(queried[c], resp[c].data[i].originalImageHash)
            /\ currentHash'[c] = resp[c].data[i].originalImageHash
            /\ pc'[c] = "lookup"]_vars

EmptyAnswer(c) ==
    /\ Finished(c)
    /\ resp[c].settled /\ resp[c].success /\ resp[c].hasData /\ resp[c].data = <<>>

ChainEnd ==
    \A c \in Comps :
        EmptyAnswer(c)
        => /\ StoppedWith(c, LineageNode(ProofRecord(NoId, PrivateName,
                                                     Last(queried[c]), NoHash),
                                         Len(queried[c]), TRUE))
           /\ lineageNodes[c][1] = LineageNode(proofOf[c], 0, FALSE)
           /\ queried[c][1] = proofOf[c].originalImageHash
           /\ \A i \in 2..Len(queried[c]) :
                 /\ lineageNodes[c][i].level = i - 1
                 /\ lineageNodes[c][i].proof.transformedImageHash = queried[c][i - 1]
                 /\ lineageNodes[c][i].proof.originalImageHash = queried[c][i]

C8_ChainThenPrivate ==
    ChainStep /\ []ChainEnd /\ StaysStopped

\* The spec's example: start, one resolved parent, the private-image orphan.
C8_Witness ==
    \E c \in Comps :
        /\ EmptyAnswer(c) /\ pc[c] = "done"
        /\ Len(lineage) = 3 /\ ~lineage[2].isOrphan
        /\ lineage[3].proof.imageName = PrivateName

\* C9: a start without an original hash makes no lookup and yields exactly the
\* one-node list of the start at level 0.
C9_NoOriginalHash ==
    \A c \in Comps :
        (pc[c] # "idle" /\ proofOf[c].originalImageHash = NoHash)
        => /\ queried[c] = <<>>
           /\ ~resp[c].settled
           /\ pc[c] \in {"returned", "done"}
           /\ lineageNodes[c] = <<LineageNode(proofOf[c], 0, FALSE)>>
           /\ pc[c] = "done" => lineage = <<LineageNode(proofOf[c], 0, FALSE)>>

\* The one-node lineage of such a start, published.
C9_Witness ==
    \E c \in Comps :
        /\ pc[c] = "done" /\ proofOf[c].originalImageHash = NoHash
        /\ Len(lineage) = 1

\* The case of C10: a non-empty list came back and none of its records has
\* the current hash as its transformed hash.
NoProducer(c) ==
    /\ Finished(c)
    /\ resp[c].settled /\ resp[c].success /\ resp[c].hasData
    /\ Len(resp[c].data) > 0
    /\ \A i \in 1..Len(resp[c].data) :
          resp[c].data[i].transformedImageHash # currentHash[c]

\* C10: when the walk stops for lack of a producer, the loop appends nothing
\* and exactly one 'Unknown Parent Image' orphan follows the last node, one
\* level deeper and carrying that node's original hash; the walk returns
\* normally.
C10_DanglingEdgeBackfilled ==
    \A c \in Comps :
        NoProducer(c)
        => LET n == Len(queried[c])
           IN  /\ Len(lineageNodes[c]) = n + 1
               /\ ~lineageNodes[c][n].isOrphan
               /\ lineageNodes[c][n + 1] =
                     LineageNode(ProofRecord(NoId, UnknownName,
                                             lineageNodes[c][n].proof.originalImageHash,
                                             NoHash),
                                 lineageNodes[c][n].level + 1, TRUE)
               /\ lineageNodes[c][n].proof.originalImageHash = currentHash[c]

\* A walk stopped by a list made only of records that lack both hashes.
C10_Witness ==
    \E c \in Comps :
        /\ NoProducer(c) /\ pc[c] = "done"
        /\ \A i \in 1..Len(resp[c].data) :
              /\ resp[c].data[i].originalImageHash = NoHash
              /\ resp[c].data[i].transformedImageHash = NoHash
        /\ Len(lineage) = 3

\* The case of C11: the first lookup, of the start's original hash, came back
\* non-empty and without a producer.
DanglingAtFirstStep(c) == NoProducer(c) /\ Len(queried[c]) = 1

\* C11 as stated: a dangling edge at the first step ends the walk with an
\* 'unknown parent' orphan at level 2 for the start's original hash.
C11_Original ==
    \A c \in Comps :
        DanglingAtFirstStep(c)
        => Last(lineageNodes[c]) =
             LineageNode(ProofRecord(NoId, UnknownName,
                                     proofOf[c].originalImageHash, NoHash), 2, TRUE)

\* C11 amended: the orphan is the second node of a two-node result and its
\* level is 1.
C11_DanglingAtFirstStep ==
    \A c \in Comps :
        DanglingAtFirstStep(c)
        => lineageNodes[c] =
             <<LineageNode(proofOf[c], 0, FALSE),
               LineageNode(ProofRecord(NoId, UnknownName,
                                       proofOf[c].originalImageHash, NoHash), 1, TRUE)>>

\* A dangling edge at the first step, published.
C11_Witness ==
    \E c \in Comps :
        DanglingAtFirstStep(c) /\ pc[c] = "done" /\ lineage = lineageNodes[c]

\* The hashes that occur in the starting proof and in the records the walk
\* took from the lookup.
HashesSeen(c) ==
    UNION {{lineageNodes[c][i].proof.originalImageHash,
            lineageNodes[c][i].proof.transformedImageHash} \ {NoHash} :
           i \in 1..Len(lineageNodes[c])}

\* C12: no hash is passed to the lookup twice, and the number of lookups is
\* at most the number of distinct hashes of the starting proof and the
\* returned records.
C12_NoHashLookedUpTwice ==
    \A c \in Comps :
        /\ \A i, j \in 1..Len(queried[c]) : i # j => queried[c][i] # queried[c][j]
        /\ \A i \in 1..Len(queried[c]) : queried[c][i] \in HashesSeen(c)
        /\ Len(queried[c]) <= Cardinality(HashesSeen(c))

\* A walk that used every hash there is: two lookups over two hashes.
C12_Witness ==
    \E c \in Comps :
        /\ pc[c] = "done" /\ Len(queried[c]) = 2
        /\ Cardinality(HashesSeen(c)) = 2

\* The outcome the producer at index i decides, whatever follows it in the
\* returned list.
DecidedByProducer(c, i) ==
    LET p == resp[c].data[i]
    IN  IF p.originalImageHash # NoHash /\ p.originalImageHash \notin visitedHashes[c]
        THEN /\ pc'[c] = "lookup"
             /\ lineageNodes'[c] =
                   Append(lineageNodes[c], LineageNode(p, Len(lineageNodes[c]), FALSE))
             /\ queried'[c] = Append(queried[c], p.originalImageHash)
        ELSE /\ pc'[c] = "returned"
             /\ queried'[c] = queried[c]
             /\ lineageNodes'[c] =
                   Append(lineageNodes[c],
                          IF p.originalImageHash # NoHash
                          THEN LineageNode(p, Len(lineageNodes[c]), TRUE)
                          ELSE LineageNode(ProofRecord(NoId, UnknownName,
                                                       currentHash[c], NoHash),
                                           Len(lineageNodes[c]), TRUE))

\* C13: the first record of the returned list whose transformed hash is the
\* current hash alone decides the iteration; later candidates are never
\* considered.
C13_FirstProducerDecides ==
    [][\A c \in Comps : \A i \in 1..MaxList :
         (pc[c] = "resume" /\ pc'[c] # pc[c] /\ Producer(c, i))
         => DecidedByProducer(c, i)]_vars

\* Two producers came back, the first with a visited original hash and the
\* second with an unvisited one: the walk stopped with the first as orphan.
C13_Witness ==
    \E c \in Comps :
        /\ pc[c] = "done" /\ Producer(c, 1) /\ Len(resp[c].data) = 2
        /\ resp[c].data[2].transformedImageHash = currentHash[c]
        /\ resp[c].data[1].originalImageHash \in visitedHashes[c]
        /\ resp[c].data[2].originalImageHash \notin visitedHashes[c] \cup {NoHash}
        /\ Last(lineageNodes[c]) = LineageNode(resp[c].data[1], Len(queried[c]), TRUE)

\* The title rendered for the last node of the published lineage.
LastTitle == NodeTitle(Last(lineage), Len(lineage) - 1)

\* C14 as stated: the title of the terminal orphan tells why the walk
\* stopped: private image for a hash without records, circular reference
\* (with an id) or private image (without) for a producer already visited,
\* and for a dangling edge an unknown-parent title that is not the
\* private-image one.
C14_TitleTellsWhy ==
    \A c \in Comps :
        (pc[c] = "done" /\ lineage = lineageNodes[c] /\ resp[c].settled /\ resp[c].success)
        => /\ (resp[c].hasData /\ resp[c].data = <<>>) => LastTitle = PrivateTitle
           /\ \A i \in 1..MaxList :
                 (Producer(c, i) /\ resp[c].data[i].originalImageHash \in visitedHashes[c])
                 => LastTitle = (IF resp[c].data[i].id # NoId
                                 THEN CircularTitle ELSE PrivateTitle)
           /\ NoProducer(c) => LastTitle # PrivateTitle

\* C15: the lookups of one computation are strictly sequential.  While a
\* lookup is outstanding every earlier one has returned and given an accepted
\* node; a lookup is issued either as the first one, for the start's original
\* hash, or by the continuation of the previous one after it has settled, for
\* the original hash of the record accepted from its result.
C15_LookupsSequential ==
    /\ [](\A c \in Comps :
            /\ pc[c] = "lookup" =>
                  (~resp[c].settled /\ Len(queried[c]) = Len(lineageNodes[c]))
            /\ pc[c] \in {"resume", "returned", "done"} /\ queried[c] # <<>> =>
                  (resp[c].settled /\ Len(queried[c]) <= Len(lineageNodes[c])))
    /\ [][\A c \in Comps :
            queried'[c] # queried[c] =>
                \/ /\ pc[c] = "idle" /\ pc'[c] = "lookup"
                   /\ queried'[c] = <<proofOf'[c].originalImageHash>>
                \/ /\ pc[c] = "resume" /\ pc'[c] = "lookup"
                   /\ resp[c].settled
                   /\ \E i \in 1..Len(resp[c].data) :
                         /\ Producer(c, i)
                         /\ Last(lineageNodes'[c]).proof = resp[c].data[i]
                         /\ ~Last(lineageNodes'[c]).isOrphan
                         /\ queried'[c] =
                               Append(queried[c], resp[c].data[i].originalImageHash)]_vars

\* The second lookup of a walk is outstanding.
C15_Witness ==
    \E c \in Comps : pc[c] = "lookup" /\ Len(queried[c]) = 2

\* C18: a completed walk from a start with an original hash has at least two
\* nodes, an orphan last and only there, and made as many lookups as it has
\* nodes after the start.
C18_OneNodePerLookup ==
    \A c \in Comps :
        (Finished(c) /\ proofOf[c].originalImageHash # NoHash)
        => /\ Len(lineageNodes[c]) >= 2
           /\ Last(lineageNodes[c]).isOrphan
           /\ \A i \in 1..(Len(lineageNodes[c]) - 1) : ~lineageNodes[c][i].isOrphan
           /\ Len(queried[c]) = Len(lineageNodes[c]) - 1

\* A completed walk whose last lookup found no producer: the post-loop
\* placeholder is the node of that iteration.
C18_Witness ==
    \E c \in Comps :
        /\ NoProducer(c) /\ pc[c] = "done"
        /\ Len(queried[c]) = 2 /\ Len(lineage) = 3

\* A node made by createOrphanProof rather than returned by the lookup.
Synthesized(node) == node.proof.imageName \in {PrivateName, UnknownName}

\* C19: the nodes are linked.  A record returned by the lookup has the
\* previous node's original hash as its transformed hash; a synthesized
\* orphan has the previous node's original hash as its original hash, no
\* transformed hash and no id.
Linked(nodes) ==
    \A i \in 2..Len(nodes) :
        IF Synthesized(nodes[i])
        THEN /\ nodes[i].isOrphan
             /\ nodes[i].proof.originalImageHash = nodes[i - 1].proof.originalImageHash
             /\ nodes[i].proof.transformedImageHash = NoHash
             /\ nodes[i].proof.id = NoId
        ELSE /\ nodes[i].proof.transformedImageHash = nodes[i - 1].proof.originalImageHash
             /\ nodes[i].proof.transformedImageHash # NoHash

C19_NodesLinked ==
    /\ \A c \in Comps : Linked(lineageNodes[c])
    /\ Linked(lineage)

\* A published lineage with a resolved parent and a synthesized orphan.
C19_Witness ==
    /\ Len(lineage) = 3
    /\ ~Synthesized(lineage[2]) /\ ~lineage[2].isOrphan
    /\ Synthesized(lineage[3])

\* The present hashes of the start and of the non-orphan nodes appended.
HashesOfNonOrphans(nodes) ==
    UNION {{nodes[i].proof.originalImageHash, nodes[i].proof.transformedImageHash}
             \ {NoHash} :
           i \in {j \in 1..Len(nodes) : ~nodes[j].isOrphan}}

\* C20: the visited set is exactly the present hashes of the start and of
\* every non-orphan node appended so far; it never shrinks, and appending an
\* orphan leaves it as it is.
C20_VisitedIsNonOrphanHashes ==
    /\ [](\A c \in Comps : visitedHashes[c] = HashesOfNonOrphans(lineageNodes[c]))
    /\ [][\A c \in Comps :
            /\ visitedHashes[c] \subseteq visitedHashes'[c]
            /\ (pc[c] # "idle" /\ lineageNodes'[c] # lineageNodes[c]
                   /\ Last(lineageNodes'[c]).isOrphan)
                => visitedHashes'[c] = visitedHashes[c]]_vars

\* A walk that accepted a parent with two hashes and then appended an orphan.
C20_Witness ==
    \E c \in Comps :
        /\ pc[c] = "done" /\ Len(lineageNodes[c]) = 3
        /\ Last(lineageNodes[c]).isOrphan
        /\ Cardinality(visitedHashes[c]) = 2
        /\ proofOf[c].transformedImageHash = NoHash

\* The node list traverseLineage builds when it runs alone against the store
\* st, from the list nodes, the visited set and the hash h.
RECURSIVE WalkFrom(_, _, _, _)
WalkFrom(nodes, visited, h, st) ==
    LET r == st[h]
        b == Branch(r, h, visited)
        parentProof == r.data[FindIndex(r.data, h)]
    IN  CASE b = "accept" ->
               WalkFrom(Append(nodes, LineageNode(parentProof, Len(nodes), FALSE)),
                        visited \cup PresentHashes(parentProof),
                        NextHash(parentProof), st)
          [] b = "seen" -> Append(nodes, LineageNode(parentProof, Len(nodes), TRUE))
          [] b = "noParent" -> Backfill(nodes, FALSE)
          [] b = "private" ->
               Append(nodes, LineageNode(createOrphanProof(h, PrivateName),
                                         Len(nodes), TRUE))

\* The lineage of the proof p computed alone against the store st.
WalkAlone(p, st) ==
    IF EarlyReturn(p.originalImageHash)
    THEN <<LineageNode(p, 0, FALSE)>>
    ELSE WalkFrom(<<LineageNode(p, 0, FALSE)>>, PresentHashes(p),
                  p.originalImageHash, st)

\* C16: two computations in flight each work on a node list and a visited
\* set of their own, made fresh when they start and changed by no step of the
\* other, and however their steps interleave each builds the list it would
\* build alone against the same store.
C16_InterleavingIndependent ==
    /\ [](\A c \in Comps :
            Finished(c) => lineageNodes[c] = WalkAlone(proofOf[c], store))
    /\ [][\A c \in Comps :
            /\ (pc[c] = "idle" /\ pc'[c] # "idle") =>
                  /\ lineageNodes'[c] = <<LineageNode(proofOf'[c], 0, FALSE)>>
                  /\ visitedHashes'[c] = {proofOf'[c].originalImageHash,
                                          proofOf'[c].transformedImageHash} \ {NoHash}
            /\ pc'[c] = pc[c] =>
                  /\ lineageNodes'[c] = lineageNodes[c]
                  /\ visitedHashes'[c] = visitedHashes[c]]_vars

\* The later computation has walked to its end while the earlier one, started
\* for another proof, is still waiting for its second lookup.
C16_Witness ==
    /\ Finished("second") /\ Len(lineageNodes["second"]) = 3
    /\ pc["first"] = "lookup" /\ Len(queried["first"]) = 2
    /\ proofOf["first"] # proofOf["second"]

\* A computation that is neither unstarted nor over.
InFlight(c) == pc[c] \in {"lookup", "resume", "returned", "threw"}

\* C17 as stated: a superseded computation leaves the hook's state to the
\* latest one: once both computations are over the published lineage is the
\* one computed for the latest currentProof, and loading is not false while
\* the latest computation is in flight.
C17_LatestWins ==
    /\ (pc["second"] = "done" /\ pc["first"] \in {"done", "failed"})
         => lineage = lineageNodes["second"]
    /\ InFlight("second") => loading

====
